---- MODULE Spec2Model ----
(***************************************************************************)
(* StreamingDataWidthConverter_Batch (finn/custom_op/fpgadataflow):        *)
(* the folded-shape queries, the word counts and execute_node in its two   *)
(* execution modes (npysim, rtlsim).                                       *)
(*                                                                         *)
(* Tensors are records [dtype, shape, data]; data is the row-major list of *)
(* the elements.  Element values are kept in HALVES (the stored integer is *)
(* twice the numeric value), so that the bipolar->binary step (x + 1) / 2  *)
(* of execute_node is exact for every integer input, as it is in float32.  *)
(***************************************************************************)
EXTENDS Integers, Sequences, FiniteSets, TLC

\* ---------------------------------------------------------------- bounds
\* largest dimension of a logical shape in the folding specification
MaxDim == 4
\* largest stream width in the folding specification
MaxWidth == 8
\* largest number of elements of a tensor in the execution specification
ExecMaxElems == 2
\* largest stream width in the execution specification
ExecMaxWidth == 4

VARIABLES
    cfg,        \* node attributes: shape, inWidth, outWidth, dataType
    context,    \* execution context: tensor name -> array or NoTensor
    ret,        \* what each shape / count query last returned
    call,       \* the last execute_node call: mode, environment, outcome
    steps       \* side effects of the last execute_node call, in order

vars == <<cfg, context, ret, call, steps>>

\* ------------------------------------------------------------- helpers
RECURSIVE Prod(_)
Prod(s) == IF s = <<>> THEN 1 ELSE Head(s) * Prod(Tail(s))

RECURSIVE Pow2(_)
Pow2(n) == IF n = 0 THEN 1 ELSE 2 * Pow2(n - 1)

Last(s) == s[Len(s)]
Front(s) == SubSeq(s, 1, Len(s) - 1)

\* ----------------------------------------------------------- datatypes
DataTypes == {"BIPOLAR", "BINARY", "UINT2", "UINT4"}

bitwidth(dt) ==
    CASE dt = "BIPOLAR" -> 1
      [] dt = "BINARY"  -> 1
      [] dt = "UINT2"   -> 2
      [] dt = "UINT4"   -> 4

\* values (in halves) a datatype can represent
allowed(dt, h) ==
    CASE dt = "BIPOLAR" -> h \in {-2, 2}
      [] dt = "BINARY"  -> h \in {0, 2}
      [] dt = "UINT2"   -> h \in {0, 2, 4, 6}
      [] dt = "UINT4"   -> h % 2 = 0 /\ h >= 0 /\ h <= 30

get_input_datatype(c) == c.dataType
get_output_datatype(c) == c.dataType

get_normal_input_shape(c) == c.shape
get_normal_output_shape(c) == c.shape

\* ------------------------------------------------------ folded shapes
Raised(kind) == [ok |-> FALSE, err |-> kind, shape |-> <<>>]
Returned(s) == [ok |-> TRUE, err |-> "none", shape |-> s]

\* slip: only the else branch of the width assertion is kept
WidthRelationOneWay(iwidth, owidth) == owidth % iwidth = 0

\* the assertion on the two widths that opens both folded-shape queries
WidthRelation(iwidth, owidth) ==
    IF iwidth > owidth THEN iwidth % owidth = 0 ELSE owidth % iwidth = 0

\* slip: the new shape is returned without reshaping the dummy tensor
ReshapeUnchecked(shape, new_shape) == Returned(new_shape)

\* numpy reshape: succeeds exactly when the element counts agree
Reshape(shape, new_shape) ==
    IF Prod(new_shape) = Prod(shape)
    THEN Returned(new_shape)
    ELSE Raised("ValueError")

\* slip: the two trailing dimensions appended in the wrong order
get_folded_input_shape_swapped(c) ==
    LET iwidth == c.inWidth
        owidth == c.outWidth
        ishape == get_normal_input_shape(c)
        ibits == bitwidth(get_input_datatype(c))
        ielems == iwidth \div ibits
        ichannels == Last(ishape)
        new_shape == Front(ishape) \o <<ielems, ichannels \div ielems>>
    IN  IF ~WidthRelation(iwidth, owidth) THEN Raised("AssertionError")
        ELSE IF iwidth % ibits # 0 THEN Raised("AssertionError")
        ELSE Reshape(ishape, new_shape)

get_folded_input_shape(c) ==
    LET iwidth == c.inWidth
        owidth == c.outWidth
        ishape == get_normal_input_shape(c)
        ibits == bitwidth(get_input_datatype(c))
        ielems == iwidth \div ibits
        ichannels == Last(ishape)
        new_shape == Front(ishape) \o <<ichannels \div ielems, ielems>>
    IN  IF ~WidthRelation(iwidth, owidth) THEN Raised("AssertionError")
        ELSE IF iwidth % ibits # 0 THEN Raised("AssertionError")
        ELSE Reshape(ishape, new_shape)

get_folded_output_shape(c) ==
    LET iwidth == c.inWidth
        owidth == c.outWidth
        oshape == get_normal_output_shape(c)
        obits == bitwidth(get_output_datatype(c))
        oelems == owidth \div obits
        ochannels == Last(oshape)
        new_shape == Front(oshape) \o <<ochannels \div oelems, oelems>>
    IN  IF ~WidthRelation(iwidth, owidth) THEN Raised("AssertionError")
        ELSE IF owidth % obits # 0 THEN Raised("AssertionError")
        ELSE Reshape(oshape, new_shape)

NoCount == [ok |-> FALSE, n |-> 0]

get_number_output_values(c) ==
    LET folded_oshape == get_folded_output_shape(c)
    IN  IF folded_oshape.ok
        THEN [ok |-> TRUE, n |-> Prod(Front(folded_oshape.shape))]
        ELSE NoCount

\* slip: np.prod over the whole folded shape, not folded_ishape[:-1]
get_number_input_values_whole(c) ==
    LET folded_ishape == get_folded_input_shape(c)
    IN  IF folded_ishape.ok
        THEN [ok |-> TRUE, n |-> Prod(folded_ishape.shape)]
        ELSE NoCount

get_number_input_values(c) ==
    LET folded_ishape == get_folded_input_shape(c)
    IN  IF folded_ishape.ok
        THEN [ok |-> TRUE, n |-> Prod(Front(folded_ishape.shape))]
        ELSE NoCount

get_instream_width(c) == c.inWidth
get_outstream_width(c) == c.outWidth

\* ------------------------------------------------------------- state
NoTensor == [dtype |-> "none", shape |-> <<>>, data |-> <<>>]
NotCalled == [called |-> FALSE, ok |-> FALSE, shape |-> <<>>, n |-> 0]
ShapeAnswer(r) == [called |-> TRUE, ok |-> r.ok, shape |-> r.shape, n |-> 0]
CountAnswer(r) == [called |-> TRUE, ok |-> r.ok, shape |-> <<>>, n |-> r.n]

NoCall == [mode |-> "none", pyverilator |-> TRUE, isfile |-> TRUE,
           backend |-> "regroup", result |-> "Configured"]

ShapesUpTo(d) ==
    {<<c>> : c \in 1..d} \cup {<<o, c>> : o \in 1..d, c \in 1..d}

FoldConfigs ==
    [shape : ShapesUpTo(MaxDim), inWidth : 1..MaxWidth,
     outWidth : 1..MaxWidth, dataType : DataTypes]

InitFold ==
    /\ cfg \in FoldConfigs
    /\ context = [name \in {"in", "out"} |-> NoTensor]
    /\ ret = [fin |-> NotCalled, fout |-> NotCalled,
              nin |-> NotCalled, nout |-> NotCalled]
    /\ call = NoCall
    /\ steps = <<>>

QueryFoldedInputShape ==
    /\ ret' = [ret EXCEPT !.fin = ShapeAnswer(get_folded_input_shape(cfg))]
    /\ UNCHANGED <<cfg, context, call, steps>>

QueryFoldedOutputShape ==
    /\ ret' = [ret EXCEPT !.fout = ShapeAnswer(get_folded_output_shape(cfg))]
    /\ UNCHANGED <<cfg, context, call, steps>>

QueryNumberInputValues ==
    /\ ret' = [ret EXCEPT !.nin = CountAnswer(get_number_input_values(cfg))]
    /\ UNCHANGED <<cfg, context, call, steps>>

QueryNumberOutputValues ==
    /\ ret' = [ret EXCEPT !.nout = CountAnswer(get_number_output_values(cfg))]
    /\ UNCHANGED <<cfg, context, call, steps>>

NextFold ==
    \/ QueryFoldedInputShape
    \/ QueryFoldedOutputShape
    \/ QueryNumberInputValues
    \/ QueryNumberOutputValues

SpecFold == InitFold /\ [][NextFold]_vars

\* ----------------------------------------------------- execute_node
\* inp = (inp + 1) / 2, on halves
Bipolar2Binary(h) == (h + 2) \div 2

\* slip: out = 2 * out
Binary2Bipolar_NoOffset(h) == 2 * h

\* out = 2 * out - 1, on halves
Binary2Bipolar(h) == 2 * h - 2

\* numpy arithmetic acts on every element
EncodeAll(d) == [i \in 1..Len(d) |-> Bipolar2Binary(d[i])]
DecodeAll(d) == [i \in 1..Len(d) |-> Binary2Bipolar(d[i])]

\* np.asarray([a], dtype=np.float32).reshape(shape)
AsFloat32Reshaped(a, shape) ==
    LET r == Reshape(a.shape, shape)
    IN  [ok |-> r.ok,
         tensor |-> [dtype |-> "float32", shape |-> shape, data |-> a.data]]

\* value of bit k (0 = least significant) of the non-negative integer w
Bit(w, k) == (w \div Pow2(k)) % 2

RECURSIVE PackWord(_, _)
\* innermost dimension packed into one integer, first element lowest
PackWord(elems, bits) ==
    IF elems = <<>> THEN 0
    ELSE (Head(elems) \div 2) + Pow2(bits) * PackWord(Tail(elems), bits)

\* data_packing.npy_to_rtlsim_input: one integer of nbits per innermost
\* row of the folded array; only values the datatype represents pack
npy_to_rtlsim_input(a, dt, nbits) ==
    LET n == Last(a.shape)
        rows == Len(a.data) \div n
    IN  IF \E i \in 1..Len(a.data) : ~allowed(dt, a.data[i])
        THEN [ok |-> FALSE, words |-> <<>>]
        ELSE [ok |-> TRUE,
              words |-> [r \in 1..rows |->
                  PackWord(SubSeq(a.data, (r - 1) * n + 1, r * n),
                           bitwidth(dt))]]

\* the converter in hardware: the bit stream of the inWidth-bit words cut
\* again into outWidth-bit words, bit order kept
Regroup(words, iwidth, owidth) ==
    LET StreamBit(k) == Bit(words[(k \div iwidth) + 1], k % iwidth)
        RECURSIVE Word(_, _)
        Word(j, b) == IF b = owidth THEN 0
                      ELSE StreamBit(j * owidth + b) * Pow2(b) + Word(j, b + 1)
    IN  [j \in 1..((Len(words) * iwidth) \div owidth) |-> Word(j - 1, 0)]

\* HLSCustomOp.rtlsim on the compiled design; a backend that misbehaves
\* delivers one word too few
rtlsim(words, iwidth, owidth, backend) ==
    LET out == Regroup(words, iwidth, owidth)
    IN  IF backend = "regroup" \/ out = <<>> THEN out ELSE Front(out)

\* data_packing.rtlsim_output_to_npy: every word split into
\* packed_bits / target_bits elements, lowest first, shaped as out_shape
rtlsim_output_to_npy(words, out_shape, packed_bits, target_bits) ==
    LET per == packed_bits \div target_bits
        elems == [i \in 1..(Len(words) * per) |->
                    2 * ((words[((i - 1) \div per) + 1]
                            \div Pow2(target_bits * ((i - 1) % per)))
                         % Pow2(target_bits))]
    IN  IF Len(elems) = Prod(out_shape)
        THEN [ok |-> TRUE,
              tensor |-> [dtype |-> "float32", shape |-> out_shape,
                          data |-> elems]]
        ELSE [ok |-> FALSE, tensor |-> NoTensor]

\* slip: the dtype assertion is missing
InputMatchesShapeOnly(inp, exp_shape) == inp.shape = exp_shape

\* lines 338-341: the two assertions on the input array
InputMatches(inp, exp_shape) ==
    inp.dtype = "float32" /\ inp.shape = exp_shape

\* slip: the verilog file is taken to exist
VerilogFileAssumed(env) == TRUE

\* line 369: os.path.isfile(verilog_file)
VerilogFilePresent(env) == env.isfile

\* slip: the input stream width is used to unpack the output
packed_bits_in(c) == get_instream_width(c)

\* line 387
packed_bits(c) == get_outstream_width(c)

Outcome(result, st, ctx) == [result |-> result, steps |-> st, context |-> ctx]

\* slip: the final assertion compares with the folded shape
Epilogue_FoldedExpectation(c, ctx, st) ==
    LET out == ctx["out"]
        decoded == [out EXCEPT !.data = DecodeAll(out.data)]
        final == IF get_output_datatype(c) = "BIPOLAR"
                 THEN [ctx EXCEPT !["out"] = decoded]
                 ELSE ctx
    IN  IF final["out"].shape = get_folded_input_shape(c).shape
        THEN Outcome("Completed", st, final)
        ELSE Outcome("OutputShapeAssertion", st, final)

\* lines 414-422: binary -> bipolar on the written entry, then the
\* assertion on its shape
Epilogue(c, ctx, st) ==
    LET out == ctx["out"]
        decoded == [out EXCEPT !.data = DecodeAll(out.data)]
        final == IF get_output_datatype(c) = "BIPOLAR"
                 THEN [ctx EXCEPT !["out"] = decoded]
                 ELSE ctx
    IN  IF final["out"].shape = get_normal_input_shape(c)
        THEN Outcome("Completed", st, final)
        ELSE Outcome("OutputShapeAssertion", st, final)

\* lines 355-358
NpysimBranch(c, ctx, inp, st) ==
    LET output == AsFloat32Reshaped(inp, get_normal_input_shape(c))
    IN  IF ~output.ok THEN Outcome("ValueError", st, ctx)
        ELSE Epilogue(c, [ctx EXCEPT !["out"] = output.tensor],
                      Append(st, "write"))

\* lines 360-406
RtlsimBranch(c, ctx, reshaped_input, export_idt, st, env) ==
    LET nbits == get_instream_width(c)
        rtlsim_inp == npy_to_rtlsim_input(reshaped_input, export_idt, nbits)
        st1 == Append(st, "pack")
        rtlsim_output == rtlsim(rtlsim_inp.words, nbits,
                                get_outstream_width(c), env.backend)
        st2 == Append(st1, "sim")
        out_shape == get_folded_output_shape(c)
        unpacked == rtlsim_output_to_npy(rtlsim_output, out_shape.shape,
                        packed_bits(c), bitwidth(export_idt))
        st3 == Append(st2, "unpack")
        output == AsFloat32Reshaped(unpacked.tensor, get_normal_input_shape(c))
    IN  IF ~env.pyverilator THEN Outcome("ImportError", st, ctx)
        ELSE IF ~VerilogFilePresent(env) THEN Outcome("NoVerilogFiles", st, ctx)
        ELSE IF ~rtlsim_inp.ok THEN Outcome("PackError", st, ctx)
        ELSE IF ~out_shape.ok THEN Outcome("FoldedShapeError", st2, ctx)
        ELSE IF ~unpacked.ok THEN Outcome("UnpackError", st2, ctx)
        ELSE IF ~output.ok THEN Outcome("ValueError", st3, ctx)
        ELSE Epilogue(c, [ctx EXCEPT !["out"] = output.tensor],
                      Append(st3, "write"))

execute_node(c, ctx, mode, env) ==
    LET exp_shape == get_normal_input_shape(c)
        folded_ishape == get_folded_input_shape(c)
        inp0 == ctx["in"]
        bipolar == get_input_datatype(c) = "BIPOLAR"
        inp == IF bipolar
               THEN [inp0 EXCEPT !.data = EncodeAll(inp0.data)]
               ELSE inp0
        export_idt == IF bipolar THEN "BINARY" ELSE get_input_datatype(c)
        reshaped_input == [inp EXCEPT !.shape = folded_ishape.shape]
        st == <<"save">>
    IN  IF ~folded_ishape.ok THEN Outcome("FoldedShapeError", <<>>, ctx)
        ELSE IF mode \notin {"npysim", "rtlsim"}
             THEN Outcome("InvalidExecMode", <<>>, ctx)
        ELSE IF ~InputMatches(inp0, exp_shape)
             THEN Outcome("InputAssertion", <<>>, ctx)
        ELSE IF mode = "npysim" THEN NpysimBranch(c, ctx, inp, st)
        ELSE RtlsimBranch(c, ctx, reshaped_input, export_idt, st, env)

\* ------------------------------------------- execution specification
ExecDataTypes == {"BIPOLAR", "BINARY", "UINT2"}

ExecShapes == {s \in ShapesUpTo(ExecMaxElems) : Prod(s) <= ExecMaxElems}

ExecConfigs ==
    [shape : ExecShapes, inWidth : 1..ExecMaxWidth,
     outWidth : 1..ExecMaxWidth, dataType : ExecDataTypes]

\* element values (in halves) a caller supplies: the values the declared
\* datatype represents (0, 1 and 3 for UINT2) and one it does not
InputHalves(dt) ==
    CASE dt = "BIPOLAR" -> {-2, 2, 0}
      [] dt = "BINARY"  -> {0, 2, 4}
      [] dt = "UINT2"   -> {0, 2, 6, -2}

Filled(dtype, shape, h) ==
    [dtype |-> dtype, shape |-> shape, data |-> [i \in 1..Prod(shape) |-> h]]

\* the tensors a caller may hand to the node: every float32 tensor of the
\* declared shape, one of another rank, one of another channel count, and
\* one that is not float32
InputsFor(c) ==
    {[dtype |-> "float32", shape |-> c.shape, data |-> d] :
         d \in [1..Prod(c.shape) -> InputHalves(c.dataType)]}
    \cup {Filled("float32", <<1>> \o c.shape, 2),
          Filled("float32", Front(c.shape) \o <<Last(c.shape) + 1>>, 2),
          Filled("float64", c.shape, 2)}

\* an output entry left in the context by an earlier producer
Stale == Filled("float32", <<1, 1, 1>>, 4)

Modes == {"npysim", "rtlsim", ""}
\* PyVerilator importable or not, the verilog file present or not, and,
\* where the backend gets to run, how it behaves
Envs ==
    {e \in [pyverilator : BOOLEAN, isfile : BOOLEAN,
            backend : {"regroup", "short"}] :
        e.backend = "short" => (e.pyverilator /\ e.isfile)}

Init ==
    /\ cfg \in ExecConfigs
    /\ \E t \in InputsFor(cfg), o \in {NoTensor, Stale} :
           context = [name \in {"in", "out"} |->
                         IF name = "in" THEN t ELSE o]
    /\ ret = [fin |-> NotCalled, fout |-> NotCalled,
              nin |-> NotCalled, nout |-> NotCalled]
    /\ call = NoCall
    /\ steps = <<>>

ExecuteNode(mode, env) ==
    LET o == execute_node(cfg, context, mode, env)
    IN  /\ context' = o.context
        /\ steps' = o.steps
        /\ call' = [mode |-> mode, pyverilator |-> env.pyverilator,
                    isfile |-> env.isfile, backend |-> env.backend,
                    result |-> o.result]
        /\ UNCHANGED <<cfg, ret>>

\* the environment is consulted in rtlsim mode only
NoEnv == [pyverilator |-> TRUE, isfile |-> TRUE, backend |-> "regroup"]

Next ==
    \/ \E mode \in Modes \ {"rtlsim"} : ExecuteNode(mode, NoEnv)
    \/ \E env \in Envs : ExecuteNode("rtlsim", env)

Spec == Init /\ [][Next]_vars

\* ============================================================ claims
elementBits == bitwidth(cfg.dataType)
lastDim == Last(cfg.shape)
OneWidthDividesTheOther ==
    cfg.inWidth % cfg.outWidth = 0 \/ cfg.outWidth % cfg.inWidth = 0

\* the three conditions of the spec for a stream of the given width
FoldLegal(streamWidth) ==
    /\ OneWidthDividesTheOther
    /\ streamWidth % elementBits = 0
    /\ lastDim % (streamWidth \div elementBits) = 0

StepSet == {steps[i] : i \in 1..Len(steps)}
Representable(t) == \A i \in 1..Len(t.data) : allowed(cfg.dataType, t.data[i])

\* C1: whenever a folded-shape query returns, the product of the
\* dimensions it returns equals the product of the logical shape's
\* dimensions, on the input side and on the output side.
C1_ElementCountPreserved ==
    /\ (ret.fin.called /\ ret.fin.ok)
           => Prod(ret.fin.shape) = Prod(cfg.shape)
    /\ (ret.fout.called /\ ret.fout.ok)
           => Prod(ret.fout.shape) = Prod(cfg.shape)

C1_Witness ==
    /\ ret.fin.called /\ ret.fin.ok /\ ret.fout.called /\ ret.fout.ok
    /\ ret.fin.shape # ret.fout.shape
    /\ Len(cfg.shape) = 2 /\ cfg.shape[1] > 1 /\ lastDim > 1

\* C2: when both word counts are returned, word count of the input times
\* inWidth equals word count of the output times outWidth.
C2_BitsConserved ==
    (ret.nin.called /\ ret.nin.ok /\ ret.nout.called /\ ret.nout.ok)
        => ret.nin.n * cfg.inWidth = ret.nout.n * cfg.outWidth

C2_Witness ==
    /\ ret.nin.called /\ ret.nin.ok /\ ret.nout.called /\ ret.nout.ok
    /\ ret.nin.n > ret.nout.n /\ ret.nout.n > 1

\* C3: a functional (npysim) call on a configuration whose input side
\* folds legally and on a float32 input of the declared shape completes
\* and leaves in the output entry a float32 array of the logical shape
\* equal to the input element for element; for BIPOLAR the input is
\* restricted to the values -1 and +1.
C3_FunctionalIdentity ==
    (/\ call.mode = "npysim"
     /\ FoldLegal(cfg.inWidth)
     /\ context["in"].dtype = "float32"
     /\ context["in"].shape = cfg.shape
     /\ cfg.dataType = "BIPOLAR" => Representable(context["in"]))
        => /\ call.result = "Completed"
           /\ context["out"] = context["in"]

C3_Witness ==
    /\ call.mode = "npysim" /\ call.result = "Completed"
    /\ cfg.dataType = "BIPOLAR"
    /\ Len(context["in"].data) = 2
    /\ context["in"].data[1] = -2 /\ context["in"].data[2] = 2
    /\ context["out"] = context["in"]

\* what a functional call writes for the input now in the context
FunctionalOutput == execute_node(cfg, context, "npysim", NoEnv).context["out"]

\* C4: a cosimulation (rtlsim) call with PyVerilator and the verilog file
\* present, a backend that only regroups the bit stream, a configuration
\* legal on both sides and a float32 input of the declared shape holding
\* representable values completes and writes the array a functional call
\* writes.
C4_CosimEqualsFunctional ==
    (/\ call.mode = "rtlsim"
     /\ call.pyverilator /\ call.isfile /\ call.backend = "regroup"
     /\ FoldLegal(cfg.inWidth) /\ FoldLegal(cfg.outWidth)
     /\ context["in"].dtype = "float32"
     /\ context["in"].shape = cfg.shape
     /\ Representable(context["in"]))
        => /\ call.result = "Completed"
           /\ context["out"] = FunctionalOutput

C4_Witness ==
    /\ call.mode = "rtlsim" /\ call.result = "Completed"
    /\ cfg.dataType = "UINT2" /\ cfg.inWidth = 2 /\ cfg.outWidth = 4
    /\ context["in"].data = <<6, 2>>
    /\ context["out"] = context["in"]
    /\ steps = <<"save", "pack", "sim", "unpack", "write">>

\* C5: a folded shape that is returned is the logical shape with its last
\* dimension C replaced by C / e and e, where e = streamWidth / elementBits
\* exactly and C / e is exact; the outer dimensions are kept in order.
FoldedAsSpecified(answer, streamWidth) ==
    LET e == streamWidth \div elementBits
    IN  /\ e * elementBits = streamWidth
        /\ (lastDim \div e) * e = lastDim
        /\ answer.shape = Front(cfg.shape) \o <<lastDim \div e, e>>

C5_FoldedShapeLayout ==
    /\ (ret.fin.called /\ ret.fin.ok)
           => FoldedAsSpecified(ret.fin, cfg.inWidth)
    /\ (ret.fout.called /\ ret.fout.ok)
           => FoldedAsSpecified(ret.fout, cfg.outWidth)

C5_Witness ==
    /\ cfg.shape = <<1, 4>> /\ cfg.inWidth = 2 /\ cfg.outWidth = 8
    /\ cfg.dataType = "UINT2"
    /\ ret.fin.called /\ ret.fin.shape = <<1, 4, 1>>
    /\ ret.fout.called /\ ret.fout.shape = <<1, 1, 4>>

\* C6: a folded-shape query returns a shape exactly when one width divides
\* the other, the stream width is a multiple of the element bits and the
\* last dimension is a multiple of streamWidth / elementBits; otherwise it
\* raises and returns nothing.
C6_FoldSucceedsIffLegal ==
    /\ ret.fin.called => (ret.fin.ok <=> FoldLegal(cfg.inWidth))
    /\ ret.fout.called => (ret.fout.ok <=> FoldLegal(cfg.outWidth))
    /\ (ret.fin.called /\ ~ret.fin.ok) => ret.fin.shape = <<>>
    /\ (ret.fout.called /\ ret.fout.ok) => ret.fout.shape # <<>>

C6_Witness ==
    /\ cfg.inWidth = 8 /\ cfg.outWidth = 2 /\ cfg.dataType = "UINT4"
    /\ cfg.shape = <<1, 4>>
    /\ ret.fin.called /\ ret.fin.ok
    /\ ret.fout.called /\ ~ret.fout.ok

\* C7 as stated: a call whose input has another shape than the logical
\* shape, or whose elements are not of the declared datatype, fails before
\* anything is saved, packed, simulated or written.
C7_Original ==
    (/\ call.mode \in {"npysim", "rtlsim"}
     /\ \/ context["in"].shape # cfg.shape
        \/ context["in"].dtype # "float32"
        \/ ~Representable(context["in"]))
        => (call.result # "Completed" /\ steps = <<>>)

\* C7 amended: a call whose input has another shape than the logical shape
\* or is not a float32 array fails before anything is saved, packed,
\* simulated or written.
C7_FailFastOnShapeOrDtype ==
    (/\ call.mode \in {"npysim", "rtlsim"}
     /\ \/ context["in"].shape # cfg.shape
        \/ context["in"].dtype # "float32")
        => (call.result # "Completed" /\ steps = <<>>)

C7_Witness ==
    /\ call.mode = "rtlsim" /\ call.pyverilator /\ call.isfile
    /\ FoldLegal(cfg.inWidth) /\ FoldLegal(cfg.outWidth)
    /\ context["in"].dtype = "float64"
    /\ call.result = "InputAssertion"

\* C8: a cosimulation call that finds no verilog file does not complete,
\* never packs, never invokes the backend, never writes the output entry
\* and makes one attempt only; when the call gets as far as looking for
\* the file, the failure is the missing-file one.
C8_MissingArtifactIsFatal ==
    (call.mode = "rtlsim" /\ ~call.isfile)
        => /\ call.result # "Completed"
           /\ StepSet \subseteq {"save"}
           /\ Len(steps) <= 1
           /\ (/\ call.pyverilator
               /\ FoldLegal(cfg.inWidth)
               /\ context["in"].dtype = "float32"
               /\ context["in"].shape = cfg.shape)
                  => (call.result = "NoVerilogFiles" /\ steps = <<"save">>)

C8_Witness ==
    /\ call.mode = "rtlsim" /\ ~call.isfile /\ call.pyverilator
    /\ call.result = "NoVerilogFiles"
    /\ FoldLegal(cfg.inWidth) /\ FoldLegal(cfg.outWidth)
    /\ Representable(context["in"])
    /\ context["out"] = NoTensor

\* C9 as stated: a call completes only if one width divides the other and
\* both widths are multiples of the element bits.
C9_Original ==
    call.result = "Completed"
        => /\ OneWidthDividesTheOther
           /\ cfg.inWidth % elementBits = 0
           /\ cfg.outWidth % elementBits = 0

\* C10: a call never touches the input entry, a call that fails leaves the
\* whole context as it was, and a call that completes leaves an output
\* entry of the logical shape.
C10_Frame ==
    [][ /\ context'["in"] = context["in"]
        /\ call'.result # "Completed" => context' = context
        /\ call'.result = "Completed" =>
               /\ context'["out"].shape = cfg.shape
               /\ context'["out"].dtype = "float32" ]_vars

C10_Witness ==
    /\ call.mode = "rtlsim" /\ call.backend = "short"
    /\ call.result = "UnpackError"
    /\ context["out"].shape = cfg.shape
    /\ context["out"] = context["in"]

====
